---- MODULE Spec2Model ----
(***************************************************************************)
(* Connection lifecycle of one remote session of                           *)
(* src/src/lib/android-tv-remote.mjs (createRemote): the believed          *)
(* connection state, the three timers, the background operation set and    *)
(* the event channel, under JavaScript's scheduling: every handler runs    *)
(* atomically up to its next await, and transport calls settle later, in   *)
(* any order.                                                              *)
(***************************************************************************)
EXTENDS Naturals, FiniteSets, Sequences, Bags, TLC

\* ------------------------------------------------------------------ bounds
\* Number of asynchronous activities (calls, timer callbacks) in flight at once.
MaxTasks == 2
\* Number of background operations launched in one behaviour.
MaxOps == 2
\* Cap of the count of live timer instances of one role.
MaxLive == 2

\* --------------------------------------------------------------- constants
\* host = ip + ":" + port, the id looked up in the registry.
Host == "ip:5555"
\* Another device the adb server may list.
OtherHost == "other:5555"

OpIds == 1..MaxOps

VARIABLES
    config,                 \* autoConnect, autoDisconnect, maintainConnection, quiet
    connected,              \* let connected
    backgroundOperations,   \* let backgroundOperations = new Set()
    ops,                    \* state of every background operation's promise
    timers,                 \* heartbeatTimer, connectionCheckTimer, disconnectTimer
    tasks,                  \* activities suspended at an await (a bag)
    registry,               \* the adb server's device list (transport side)
    errListener,            \* whether a listener is registered for 'error'
    ready,                  \* createRemote() has returned the remote
    issuedSince,            \* transport connects issued by connect() since the last disconnect() call: none, one, many
    logListeners,           \* the instances through whose on() a listener is registered for 'log'
    last                    \* what the last handler step did (observation)

vars == <<config, connected, backgroundOperations, ops, timers, tasks, registry,
          errListener, ready, issuedSince, logListeners, last>>

\* ------------------------------------------------------------------ events
LogEv(level, source) == [kind |-> "log", level |-> level, source |-> source]
ErrEv(source) == [kind |-> "error", level |-> "error", source |-> source]

\* Error classes of a failed transport call or background step, by message content.
ConnectOutcomes == {"ok", "already", "unauthorized", "refused", "other"}
DisconnectOutcomes == {"ok", "already", "unauthorized", "refused", "other"}
ShellOutcomes == {"ok", "other"}
BgOutcomes == {"ok", "decode", "other"}

\* emitError: the decode class is downgraded to a debug log; everything else is
\* emitted as 'error', which throws when no listener is registered.
emitError(cls, source) ==
    IF cls = "decode"
    THEN [events |-> {LogEv("debug", source)}, threw |-> FALSE]
    ELSE IF errListener
         THEN [events |-> {ErrEv(source)}, threw |-> FALSE]
         ELSE [events |-> {}, threw |-> TRUE]

\* localEmitError: the same filter while not connected, then the global emitError.
localEmitError(cls, source) ==
    IF ~connected /\ cls = "decode"
    THEN [events |-> {LogEv("debug", source)}, threw |-> FALSE]
    ELSE emitError(cls, source)

handleDisconnectError(cls) ==
    LET first == emitError(cls, "handleDisconnectError")
        guide == IF cls \in {"unauthorized", "refused"}
                 THEN {LogEv("error", "handleDisconnectError"),
                       LogEv("info", "handleDisconnectError")}
                 ELSE {}
    IN  IF first.threw
        THEN first
        ELSE [events |-> first.events \cup guide, threw |-> FALSE]

\* ------------------------------------------------------------------ timers
NoTimer == [handle |-> FALSE, handleLive |-> FALSE, live |-> 0]

\* A timer created by setTimeout(...) whose handle is not kept: it cannot be
\* cancelled (the initialization deadline).
PendingTimer == [handle |-> FALSE, handleLive |-> FALSE, live |-> 1]

\* clearTimeout / clearInterval of the handle held in the variable.
clearTimer(t) ==
    IF t.handle /\ t.handleLive
    THEN [t EXCEPT !.handleLive = FALSE, !.live = @ - 1]
    ELSE t

\* x = setTimeout(...) / setInterval(...): a new live timer, held by the variable.
setTimer(t) ==
    [handle |-> TRUE, handleLive |-> TRUE,
     live |-> IF t.live < MaxLive THEN t.live + 1 ELSE MaxLive]

\* x = null
nullTimer(t) == [t EXCEPT !.handle = FALSE, !.handleLive = FALSE]

startConnectionCheck(tm) ==
    [tm EXCEPT !.check = setTimer(clearTimer(tm.check))]

\* startHeartbeat without `if (heartbeatTimer) clearInterval(heartbeatTimer)`.
startHeartbeat_NoClear(tm) ==
    IF ~config.maintainConnection
    THEN tm
    ELSE startConnectionCheck([tm EXCEPT !.heartbeat = setTimer(tm.heartbeat)])

startHeartbeat(tm) ==
    IF ~config.maintainConnection
    THEN tm
    ELSE startConnectionCheck([tm EXCEPT !.heartbeat = setTimer(clearTimer(tm.heartbeat))])

\* stopHeartbeat without its second block: the connection check keeps running.
stopHeartbeat_KeepCheck(tm) ==
    [tm EXCEPT !.heartbeat = nullTimer(clearTimer(tm.heartbeat))]

stopHeartbeat(tm) ==
    [tm EXCEPT !.heartbeat = nullTimer(clearTimer(tm.heartbeat)),
               !.check = nullTimer(clearTimer(tm.check))]

\* resetDisconnectTimer without `if (!autoDisconnect) return`.
resetDisconnectTimer_NoPolicy(tm) ==
    [tm EXCEPT !.idle = setTimer(clearTimer(tm.idle))]

resetDisconnectTimer(tm) ==
    IF ~config.autoDisconnect
    THEN tm
    ELSE [tm EXCEPT !.idle = setTimer(clearTimer(tm.idle))]

\* The roles whose live timer startHeartbeat() cancels before it creates the new one.
restartedByStart(tm) ==
    IF ~config.maintainConnection
    THEN {}
    ELSE {role \in {"heartbeat", "check"} : tm[role].handle /\ tm[role].handleLive}

\* The same for resetDisconnectTimer().
restartedByReset(tm) ==
    IF ~config.autoDisconnect
    THEN {}
    ELSE {role \in {"idle"} : tm[role].handle /\ tm[role].handleLive}

\* ------------------------------------------------------------------- tasks
\* The shell command of a key dispatch: `input text "<arg>"` or `input keyevent <arg>`.
NoCmd == [verb |-> "none", arg |-> "none"]

\* The arguments of a call through the keyboard surface, none for other calls.
NoCall == [surface |-> "none", key |-> "none", force |-> FALSE, hasCode |-> FALSE,
           cb |-> "none"]

Task(kind, pc) ==
    [kind |-> kind, pc |-> pc, snap |-> {}, was |-> FALSE, cmd |-> NoCmd, cb |-> "none"]

NumTasks == BagCardinality(tasks)
\* The calls of one kind in flight at the transport (tasks at that await).
InFlight(pc) ==
    BagCardinality([r \in {x \in BagToSet(tasks) : x.pc = pc} |-> tasks[r]])
TaskSet == BagToSet(tasks)
Add(r) == tasks (+) SetToBag({r})
Remove(r) == tasks (-) SetToBag({r})
Replace(r, s) == (tasks (-) SetToBag({r})) (+) SetToBag({s})

\* Any listed device counts as the session's.
Found_Any(devices) == devices # {}

\* devices.some((d) => d.id === deviceId)
Found(devices) == Host \in devices

\* The observation of one handler step.
Obs(act, kind, ret, issued, events) ==
    [act |-> act, kind |-> kind, ret |-> ret, issued |-> issued, events |-> events,
     connectedBefore |-> connected, was |-> FALSE, snap |-> {},
     reply |-> "none", devices |-> {}, restarted |-> {},
     sent |-> NoCmd, call |-> NoCall, returned |-> "none", calls |-> <<>>]

\* One more transport connect issued by connect(): none, one, many.
Bump(n) == IF n = "none" THEN "one" ELSE "many"

\* ------------------------------------------------------------ configuration
\* An option of the RemoteConfig passed to createRemote: absent, true or false.
Options == {"unset", "true", "false"}

\* config.x !== false
defaultTrue(v) == v # "false"
\* config.x === true
defaultFalse(v) == v = "true"

\* The policy createRemote derives from the options it is given.
RemoteConfig(o) ==
    [autoConnect |-> defaultTrue(o.autoConnect),
     autoDisconnect |-> defaultFalse(o.autoDisconnect),
     maintainConnection |-> defaultTrue(o.maintainConnection),
     quiet |-> defaultTrue(o.quiet)]

\* wrapAsync: what the caller sees of a call whose promise settles as res, with a
\* trailing callback (cb) or without one.
wrapAsync(res, cb) ==
    IF cb
    THEN IF res = "rejected" THEN "cb(err)" ELSE "cb(null, result)"
    ELSE IF res = "rejected" THEN "rejects" ELSE "resolves"

\* The invocations of the trailing callback of a wrapped call whose promise
\* settles as res: p.then((result) => cb(null, result)).catch((err) => cb(err)).
\* The catch is chained after the then: it also receives what cb throws there.
callbackCalls(res, cb) ==
    IF cb = "none" THEN <<>>
    ELSE IF res = "rejected" THEN <<"cb(err)">>
    ELSE IF cb = "throws" THEN <<"cb(null, result)", "cb(err)">>
    ELSE <<"cb(null, result)">>

\* -------------------------------------------------------------------- Init
\* The state when createRemote() has run its synchronous part: with autoConnect
\* the initialization has called getConnectionStatus(true), whose registry query
\* is in flight.
Init ==
    /\ config \in {RemoteConfig(o) : o \in [autoConnect : Options, autoDisconnect : Options,
                                               maintainConnection : Options, quiet : Options]}
    /\ connected = FALSE
    /\ backgroundOperations = {}
    /\ ops = [o \in OpIds |-> "unborn"]
    /\ timers = [heartbeat |-> NoTimer, check |-> NoTimer, idle |-> NoTimer,
                 deadline |-> PendingTimer]
    /\ registry \in {{OtherHost}, {Host, OtherHost}}
    /\ errListener \in BOOLEAN
    /\ tasks = IF config.autoConnect THEN SetToBag({Task("init", "listing")}) ELSE EmptyBag
    /\ ready = ~config.autoConnect
    /\ issuedSince = "none"
    /\ logListeners = {}
    /\ last = [act |-> "construct", kind |-> "none", ret |-> "none",
               issued |-> IF config.autoConnect THEN {"listDevices"} ELSE {},
               events |-> {}, connectedBefore |-> FALSE, was |-> FALSE, snap |-> {},
               reply |-> "none", devices |-> {}, restarted |-> {},
               sent |-> NoCmd, call |-> NoCall, returned |-> "none", calls |-> <<>>]

\* ------------------------------------------------- connect / ensureConnected
\* connect(), called when `connected` has the value c: whether it issues the
\* transport connect, and what it logs when it returns at once.
\* connect() without the check of the connection state.
connect_NoGuard(c) == [issue |-> TRUE, events |-> {}]

connect(c) ==
    IF c
    THEN [issue |-> FALSE,
          events |-> IF config.quiet THEN {} ELSE {LogEv("info", "connect")}]
    ELSE [issue |-> TRUE, events |-> {}]

ensureConnected(c) ==
    IF ~config.autoConnect THEN [issue |-> FALSE, events |-> {}]
    ELSE IF c THEN [issue |-> FALSE, events |-> {}]
    ELSE connect(c)

\* connect() without the "already connected" case of its catch block.
ConnectSettled_NoAlready(o) ==
    IF o = "ok"
    THEN [conn |-> TRUE, tm |-> startHeartbeat(timers), res |-> "ok",
          rs |-> restartedByStart(timers),
          ev |-> IF config.quiet THEN {} ELSE {LogEv("info", "connect")}]
    ELSE LET h == handleDisconnectError(o)
         IN  [conn |-> connected, tm |-> timers, ev |-> h.events, rs |-> {},
              res |-> IF h.threw THEN "rejected" ELSE "errvalue"]

\* The .then / .catch handlers of connect(), run when the transport connect
\* settles with outcome o: the new state and how connect()'s promise settles.
ConnectSettled(o) ==
    IF o = "ok"
    THEN [conn |-> TRUE, tm |-> startHeartbeat(timers), res |-> "ok",
          rs |-> restartedByStart(timers),
          ev |-> IF config.quiet THEN {} ELSE {LogEv("info", "connect")}]
    ELSE IF o = "already"
    THEN [conn |-> TRUE, tm |-> startHeartbeat(timers), res |-> "ok",
          rs |-> restartedByStart(timers),
          ev |-> IF config.quiet THEN {} ELSE {LogEv("warn", "connect")}]
    ELSE LET h == handleDisconnectError(o)
         IN  [conn |-> connected, tm |-> timers, ev |-> h.events, rs |-> {},
              res |-> IF h.threw THEN "rejected" ELSE "errvalue"]

\* remote.connect()
CallConnect ==
    /\ ready
    /\ LET c == connect(connected)
       IN  IF c.issue
           THEN /\ NumTasks < MaxTasks
                /\ tasks' = Add(Task("connect", "connecting"))
                /\ issuedSince' = Bump(issuedSince)
                /\ last' = Obs("connect", "connect", "none", {"connect"}, c.events)
           ELSE /\ UNCHANGED <<tasks, issuedSince>>
                /\ last' = Obs("connect", "connect", "ok", {}, c.events)
    /\ UNCHANGED <<config, logListeners, connected, backgroundOperations, ops, timers, registry,
                   errListener, ready>>

\* inputKeycode / inputKeycodeLongPress / inputText
CallCommand ==
    /\ ready
    /\ NumTasks < MaxTasks
    /\ LET e == ensureConnected(connected)
       IN  IF e.issue
           THEN /\ tasks' = Add(Task("command", "connecting"))
                /\ timers' = timers
                /\ last' = Obs("command", "command", "none", {"connect"}, e.events)
           ELSE /\ tasks' = Add(Task("command", "shell"))
                /\ timers' = resetDisconnectTimer(timers)
                /\ last' = [Obs("command", "command", "none", {"shell"}, e.events)
                               EXCEPT !.restarted = restartedByReset(timers)]
    /\ UNCHANGED <<config, logListeners, connected, backgroundOperations, ops, registry,
                   errListener, ready, issuedSince>>

\* screencap({ filepath }) up to its first await
CallScreencap ==
    /\ ready
    /\ NumTasks < MaxTasks
    /\ LET e == ensureConnected(connected)
           ev == {LogEv("info", "screencap")}
       IN  IF e.issue
           THEN /\ tasks' = Add(Task("screencap", "connecting"))
                /\ last' = Obs("screencap", "screencap", "none", {"connect"}, ev)
           ELSE /\ tasks' = Add(Task("screencap", "capturing"))
                /\ last' = Obs("screencap", "screencap", "none", {"screencap"}, ev)
    /\ UNCHANGED <<config, logListeners, connected, backgroundOperations, ops, timers, registry,
                   errListener, ready, issuedSince>>

\* A transport connect settles with outcome o; the handlers of connect() run, and
\* then the continuation of whoever awaited connect().
ConnectSettle ==
    \E r \in TaskSet, o \in ConnectOutcomes :
       /\ r.pc = "connecting"
       /\ o = "already" => Host \in registry
       /\ registry' = IF o = "ok" THEN registry \cup {Host} ELSE registry
       /\ LET s == ConnectSettled(o)
              ob(kind, ret, issued, ev) ==
                  [Obs("connectSettle", kind, ret, issued, ev)
                      EXCEPT !.reply = o, !.restarted = s.rs]
          IN  /\ connected' = s.conn
              /\ CASE r.kind = "connect" ->
                        /\ tasks' = Remove(r)
                        /\ timers' = s.tm
                        /\ ready' = ready
                        /\ last' = ob("connect", s.res, {}, s.ev)
                   [] r.kind = "command" ->
                        \* ensureConnected().then(() => { resetDisconnectTimer(); device.shell(...) })
                        IF s.res = "rejected"
                        THEN /\ tasks' = Remove(r)
                             /\ timers' = s.tm
                             /\ ready' = ready
                             /\ last' = [ob("command", "rejected", {}, s.ev)
                                            EXCEPT !.call = [NoCall EXCEPT !.cb = r.cb],
                                                   !.calls = callbackCalls("rejected", r.cb)]
                        ELSE /\ tasks' = Replace(r, [r EXCEPT !.pc = "shell", !.cmd = NoCmd])
                             /\ timers' = resetDisconnectTimer(s.tm)
                             /\ ready' = ready
                             /\ last' = [ob("command", "none", {"shell"}, s.ev)
                                            EXCEPT !.restarted = s.rs \cup restartedByReset(s.tm),
                                                   !.sent = r.cmd]
                   [] r.kind = "screencap" ->
                        \* await ensureConnected(); await device.screencap()
                        IF s.res = "rejected"
                        THEN /\ tasks' = Remove(r)
                             /\ timers' = s.tm
                             /\ ready' = ready
                             /\ last' = ob("screencap", "rejected", {},
                                            s.ev \cup localEmitError(o, "screencap").events)
                        ELSE /\ tasks' = Replace(r, Task("screencap", "capturing"))
                             /\ timers' = s.tm
                             /\ ready' = ready
                             /\ last' = ob("screencap", "none",
                                            {"screencap"}, s.ev \cup {LogEv("info", "screencap")})
                   [] r.kind = "check" ->
                        \* await connect() inside the tick's try / catch
                        /\ tasks' = Remove(r)
                        /\ timers' = s.tm
                        /\ ready' = ready
                        /\ last' = ob("check", "none", {},
                                       s.ev \cup IF s.res = "rejected"
                                                 THEN {LogEv("warn", "connectionCheck")}
                                                 ELSE {})
                   [] r.kind = "init" ->
                        \* await connect(); if (connected) resolve else emitError, reject;
                        \* createRemote awaits realInitPromise and emits on rejection.
                        LET e1 == emitError("other", "initPromise")
                            e2 == emitError("other", "createRemote")
                        IN  /\ tasks' = Remove(r)
                            /\ timers' = s.tm
                            /\ IF s.res # "rejected" /\ s.conn
                               THEN /\ ready' = TRUE
                                    /\ last' = ob("init", "ok", {}, s.ev)
                               ELSE IF e1.threw \/ e2.threw
                               THEN \* the emit throws inside the catch block: the promise
                                    \* createRemote awaits never settles
                                    /\ ready' = FALSE
                                    /\ last' = ob("init", "hang", {}, s.ev)
                               ELSE /\ ready' = TRUE
                                    /\ last' = ob("init", "rejected", {},
                                                   s.ev \cup e1.events \cup e2.events)
       /\ UNCHANGED <<config, logListeners, backgroundOperations, ops, errListener, issuedSince>>

\* The heartbeat's failure handled like a lost connection.
heartbeatSettled_Report(o) ==
    IF o = "ok"
    THEN [conn |-> connected, ret |-> "none", ev |-> {}]
    ELSE [conn |-> FALSE, ret |-> "none", ev |-> handleDisconnectError(o).events]

\* device.shell("echo heartbeat").catch(() => {}): the result is dropped.
heartbeatSettled(o) == [conn |-> connected, ret |-> "none", ev |-> {}]

\* The promise a command returns is the transport's.
commandSettled(o) ==
    [conn |-> connected, ret |-> IF o = "ok" THEN "ok" ELSE "rejected", ev |-> {}]

\* device.shell(...) settles: a command's result, or a heartbeat's discarded one.
ShellSettle ==
    \E r \in TaskSet, o \in ShellOutcomes :
       /\ r.pc = "shell"
       /\ tasks' = Remove(r)
       /\ LET s == IF r.kind = "heartbeat" THEN heartbeatSettled(o) ELSE commandSettled(o)
          IN  /\ connected' = s.conn
              /\ last' = [Obs("shellSettle", r.kind, s.ret, {}, s.ev)
                             EXCEPT !.reply = o, !.call = [NoCall EXCEPT !.cb = r.cb],
                                    !.calls = callbackCalls(s.ret, r.cb)]
       /\ UNCHANGED <<config, logListeners, backgroundOperations, ops, timers, registry,
                      errListener, ready, issuedSince>>

\* ------------------------------------------------- background operations
Settled(o) == ops[o] \in {"fulfilled", "rejected"}
Unsettled == {o \in OpIds : ops[o] \in {"running", "stalled"}}
NextOp == CHOOSE o \in OpIds : ops[o] = "unborn" /\ \A p \in OpIds : p < o => ops[p] # "unborn"

\* device.screencap() settles. On success the save is launched as a background
\* operation: the async function runs up to its first await (sync = "suspended"),
\* or createWriteStream throws before it (sync = "threw"), in which case the
\* finally block reads backgroundOperation before its initialization and the
\* promise is rejected; the promise is then added to the set.
CaptureSettle ==
    \E r \in TaskSet, o \in ShellOutcomes, sync \in {"suspended", "threw"} :
       /\ r.pc = "capturing"
       /\ tasks' = Remove(r)
       /\ IF o = "ok"
          THEN /\ \E p \in OpIds : ops[p] = "unborn"
               /\ backgroundOperations' = backgroundOperations \cup {NextOp}
               /\ IF sync = "suspended"
                  THEN /\ ops' = [ops EXCEPT ![NextOp] = "running"]
                       /\ last' = [Obs("captureSettle", "screencap", "ok", {},
                                       {LogEv("info", "screencap")})
                                   EXCEPT !.snap = {NextOp}]
                  ELSE /\ ops' = [ops EXCEPT ![NextOp] = "rejected"]
                       /\ last' = [Obs("captureSettle", "screencap", "ok", {},
                                       {LogEv("info", "screencap"), LogEv("error", "screencap")}
                                          \cup localEmitError("other", "screencap").events)
                                   EXCEPT !.snap = {NextOp}]
          ELSE /\ sync = "suspended"
               /\ UNCHANGED <<backgroundOperations, ops>>
               /\ last' = Obs("captureSettle", "screencap", "rejected", {},
                              {LogEv("info", "screencap")}
                                 \cup localEmitError("other", "screencap").events)
       /\ UNCHANGED <<config, logListeners, connected, timers, registry, errListener, ready, issuedSince>>

\* A running background operation finishes its stream: try / catch / finally.
BgSettle ==
    \E p \in OpIds, o \in BgOutcomes :
       /\ ops[p] = "running"
       /\ backgroundOperations' = backgroundOperations \ {p}
       /\ LET e == localEmitError(o, "screencap")
          IN  IF o = "ok"
              THEN /\ ops' = [ops EXCEPT ![p] = "fulfilled"]
                   /\ last' = [Obs("bgSettle", "background", "ok", {},
                                   {LogEv("info", "screencap")})
                               EXCEPT !.snap = {p}, !.reply = o]
              ELSE /\ ops' = [ops EXCEPT ![p] = IF e.threw THEN "rejected" ELSE "fulfilled"]
                   /\ last' = [Obs("bgSettle", "background", "failed", {},
                                   {LogEv("info", "screencap"), LogEv("error", "screencap")}
                                      \cup e.events)
                               EXCEPT !.snap = {p}, !.reply = o]
       /\ UNCHANGED <<config, logListeners, connected, timers, tasks, registry, errListener, ready,
                      issuedSince>>

\* The capture stream of a running background operation fails or stops before its
\* end. pipe() neither ends nor fails the destination then, and the operation
\* listens to the destination only ('finish', 'error'; in the resize branch to the
\* transform's 'end', 'error'): no event is left that settles its promise.
BgStall ==
    \E p \in OpIds :
       /\ ops[p] = "running"
       /\ ops' = [ops EXCEPT ![p] = "stalled"]
       /\ last' = [Obs("bgStall", "background", "none", {}, {}) EXCEPT !.snap = {p}]
       /\ UNCHANGED <<config, logListeners, connected, backgroundOperations, timers, tasks, registry,
                      errListener, ready, issuedSince>>

\* ---------------------------------------------------------------- disconnect
\* Promise.all in place of Promise.allSettled: the first rejection ends the wait.
drainComplete_All(snap) ==
    (\A o \in snap : Settled(o)) \/ (\E o \in snap : ops[o] = "rejected")

\* await Promise.allSettled([...backgroundOperations]), snap being the operations
\* in the set at the call: it continues once every one of them has settled.
drainComplete(snap) == \A o \in snap : Settled(o)

\* disconnect() up to its first await, run by `act` (the caller or the idle timer)
\* with the timers tm.
DisconnectStart(act, tm) ==
    /\ NumTasks < MaxTasks
    /\ timers' = stopHeartbeat([tm EXCEPT !.idle = nullTimer(clearTimer(tm.idle))])
    /\ issuedSince' = "none"
    /\ IF backgroundOperations # {}
       THEN /\ tasks' = Add([Task("disconnect", "draining")
                               EXCEPT !.snap = backgroundOperations, !.was = connected])
            /\ last' = [Obs(act, "disconnect", "none", {},
                            IF config.quiet THEN {} ELSE {LogEv("info", "disconnect")})
                        EXCEPT !.snap = backgroundOperations, !.was = connected]
       ELSE /\ tasks' = Add([Task("disconnect", "disconnecting") EXCEPT !.was = connected])
            /\ last' = [Obs(act, "disconnect", "none", {"disconnect"},
                            IF config.quiet THEN {} ELSE {LogEv("info", "disconnect")})
                        EXCEPT !.was = connected]

\* remote.disconnect()
CallDisconnect ==
    /\ ready
    /\ DisconnectStart("disconnect", timers)
    /\ UNCHANGED <<config, logListeners, connected, backgroundOperations, ops, registry, errListener,
                   ready>>

\* The drain is over: client.disconnect(ip, port) is issued.
DrainDone ==
    \E r \in TaskSet :
       /\ r.pc = "draining"
       /\ drainComplete(r.snap)
       /\ tasks' = Replace(r, [r EXCEPT !.pc = "disconnecting", !.snap = {}])
       /\ last' = [Obs("drainDone", "disconnect", "none", {"disconnect"},
                       IF config.quiet THEN {} ELSE {LogEv("info", "disconnect")})
                   EXCEPT !.snap = r.snap, !.was = r.was]
       /\ UNCHANGED <<config, logListeners, connected, backgroundOperations, ops, timers, registry,
                      errListener, ready, issuedSince>>

\* disconnect() without the "disconnected" case of its catch block.
DisconnectSettled_NoAlready(o) ==
    IF o = "ok"
    THEN [conn |-> FALSE, res |-> "ok",
          ev |-> IF config.quiet THEN {} ELSE {LogEv("info", "disconnect")}]
    ELSE LET h == handleDisconnectError(o)
         IN  [conn |-> connected, ev |-> h.events,
              res |-> IF h.threw THEN "rejected" ELSE "errvalue"]

\* How disconnect() ends when client.disconnect settles with outcome o.
DisconnectSettled(o) ==
    IF o = "ok"
    THEN [conn |-> FALSE, res |-> "ok",
          ev |-> IF config.quiet THEN {} ELSE {LogEv("info", "disconnect")}]
    ELSE IF o = "already"
    THEN [conn |-> FALSE, res |-> "ok",
          ev |-> IF config.quiet THEN {} ELSE {LogEv("warn", "disconnect")}]
    ELSE LET h == handleDisconnectError(o)
         IN  [conn |-> connected, ev |-> h.events,
              res |-> IF h.threw THEN "rejected" ELSE "errvalue"]

DisconnectSettle ==
    \E r \in TaskSet, o \in DisconnectOutcomes :
       /\ r.pc = "disconnecting"
       /\ o = "already" => Host \notin registry
       /\ registry' = IF o = "ok" THEN registry \ {Host} ELSE registry
       /\ LET s == DisconnectSettled(o)
          IN  /\ connected' = s.conn
              /\ last' = [Obs("disconnectSettle", "disconnect", s.res, {}, s.ev)
                          EXCEPT !.was = r.was, !.reply = o]
       /\ tasks' = Remove(r)
       /\ UNCHANGED <<config, logListeners, backgroundOperations, ops, timers, errListener, ready,
                      issuedSince>>

\* ------------------------------------------------------ registry queries
\* client.listDevices() settles: the registry as it is then, or an error.
ListReplies == {"ok", "error"}

\* The catch block without `connected = false`.
statusOf_KeepOnError(reply, devices) ==
    IF reply = "ok"
    THEN [conn |-> Found(devices),
          status |-> IF Found(devices) THEN "connected" ELSE "disconnected"]
    ELSE [conn |-> connected, status |-> "unknown"]

\* getConnectionStatus(true) after its await: the new belief and the status.
statusOf(reply, devices) ==
    IF reply = "ok"
    THEN [conn |-> Found(devices),
          status |-> IF Found(devices) THEN "connected" ELSE "disconnected"]
    ELSE [conn |-> FALSE, status |-> "unknown"]

\* remote.getConnectionStatus(liveCheck)
CallStatus ==
    \E liveCheck \in BOOLEAN :
       /\ ready
       /\ IF liveCheck
          THEN /\ NumTasks < MaxTasks
               /\ tasks' = Add(Task("status", "listing"))
               /\ last' = Obs("status", "status", "none", {"listDevices"}, {})
          ELSE /\ tasks' = tasks
               /\ last' = Obs("status", "status",
                              IF connected THEN "connected" ELSE "disconnected", {}, {})
       /\ UNCHANGED <<config, logListeners, connected, backgroundOperations, ops, timers, registry,
                      errListener, ready, issuedSince>>

StatusSettle ==
    \E r \in TaskSet, reply \in ListReplies :
       /\ r.kind = "status" /\ r.pc = "listing"
       /\ LET s == statusOf(reply, registry)
          IN  /\ connected' = s.conn
              /\ last' = [Obs("statusSettle", "status", s.status, {}, {})
                          EXCEPT !.reply = reply, !.devices = registry]
       /\ tasks' = Remove(r)
       /\ UNCHANGED <<config, logListeners, backgroundOperations, ops, timers, registry, errListener,
                      ready, issuedSince>>

\* realInitPromise after `await getConnectionStatus(true)`.
InitSettle ==
    \E r \in TaskSet, reply \in ListReplies :
       /\ r.kind = "init" /\ r.pc = "listing"
       /\ LET s == statusOf(reply, registry)
          IN  IF s.status = "connected"
              THEN /\ connected' = TRUE
                   /\ timers' = startHeartbeat(timers)
                   /\ tasks' = Remove(r)
                   /\ ready' = TRUE
                   /\ last' = [Obs("initSettle", "init", "ok", {},
                                   IF config.quiet THEN {} ELSE {LogEv("info", "initPromise")})
                               EXCEPT !.reply = reply, !.devices = registry,
                                      !.restarted = restartedByStart(timers)]
              ELSE \* await connect(), with connected just set by the status check
                   /\ connected' = s.conn
                   /\ timers' = timers
                   /\ ready' = ready
                   /\ IF connect(s.conn).issue
                      THEN /\ tasks' = Replace(r, Task("init", "connecting"))
                           /\ last' = [Obs("initSettle", "init", "none", {"connect"}, {})
                                       EXCEPT !.reply = reply, !.devices = registry]
                      ELSE /\ tasks' = Remove(r)
                           /\ last' = [Obs("initSettle", "init", "none", {}, {})
                                       EXCEPT !.reply = reply, !.devices = registry]
       /\ UNCHANGED <<config, logListeners, backgroundOperations, ops, registry, errListener, issuedSince>>

\* ---------------------------------------------------- reachability monitor
\* The tick reconnecting through ensureConnected().
reconnect_Ensure(c) == ensureConnected(c)

\* What the tick calls to reconnect once it has set connected = false: connect().
reconnect(c) == connect(c)

\* The tick treating a failed query like an absent device.
checkTick_FlapOnError(reply, devices) ==
    IF reply = "error"
    THEN [act |-> "checkFailed", conn |-> FALSE, reconnect |-> TRUE,
          ev |-> {LogEv("warn", "connectionCheck")}]
    ELSE IF Found(devices)
    THEN [act |-> "checkFound", conn |-> connected, reconnect |-> FALSE, ev |-> {}]
    ELSE [act |-> "checkAbsent", conn |-> FALSE, reconnect |-> TRUE,
          ev |-> {LogEv("warn", "connectionCheck")}]

\* The tick's body after `await client.listDevices()`: the branch taken, the new
\* belief, whether it goes on to reconnect, and what it logs.
checkTick(reply, devices) ==
    IF reply = "error"
    THEN [act |-> "checkFailed", conn |-> connected, reconnect |-> FALSE,
          ev |-> {LogEv("warn", "connectionCheck")}]
    ELSE IF Found(devices)
    THEN [act |-> "checkFound", conn |-> connected, reconnect |-> FALSE, ev |-> {}]
    ELSE [act |-> "checkAbsent", conn |-> FALSE, reconnect |-> TRUE,
          ev |-> {LogEv("warn", "connectionCheck")}]

\* The tick without `if (!connected) return`.
tickQueries_NoGuard(c) == {"listDevices"}

\* The transport calls a tick of the connection check interval issues at once when
\* `connected` has the value c.
tickQueries(c) == IF ~c THEN {} ELSE {"listDevices"}

\* A tick of the connection check interval.
CheckTick ==
    /\ timers.check.live > 0
    /\ IF tickQueries(connected) = {}
       THEN /\ tasks' = tasks
            /\ last' = Obs("checkTick", "check", "none", {}, {})
       ELSE /\ NumTasks < MaxTasks
            /\ tasks' = Add(Task("check", "listing"))
            /\ last' = Obs("checkTick", "check", "none", tickQueries(connected), {})
    /\ UNCHANGED <<config, logListeners, connected, backgroundOperations, ops, timers, registry,
                   errListener, ready, issuedSince>>

\* The tick after `await client.listDevices()`.
CheckSettle ==
    \E r \in TaskSet, reply \in ListReplies :
       /\ r.kind = "check" /\ r.pc = "listing"
       /\ LET c == checkTick(reply, registry)
          IN  /\ connected' = c.conn
              /\ IF c.reconnect /\ reconnect(c.conn).issue
                 THEN /\ tasks' = Replace(r, Task("check", "connecting"))
                      /\ last' = [Obs(c.act, "check", "none", {"connect"}, c.ev)
                                  EXCEPT !.reply = reply, !.devices = registry]
                 ELSE /\ tasks' = Remove(r)
                      /\ last' = [Obs(c.act, "check", "none", {}, c.ev)
                                  EXCEPT !.reply = reply, !.devices = registry]
       /\ UNCHANGED <<config, logListeners, backgroundOperations, ops, timers, registry, errListener,
                      ready, issuedSince>>

\* ------------------------------------------------------------- heartbeat
\* The tick without `if (!connected) return`.
heartbeatTick_NoGuard(c) == {"shell"}

\* The transport calls a tick of the heartbeat interval issues when `connected`
\* has the value c.
heartbeatTick(c) == IF ~c THEN {} ELSE {"shell"}

\* A tick of the heartbeat interval.
HeartbeatTick ==
    /\ timers.heartbeat.live > 0
    /\ IF heartbeatTick(connected) = {}
       THEN /\ tasks' = tasks
            /\ last' = Obs("heartbeatTick", "heartbeat", "none", {}, {})
       ELSE /\ NumTasks < MaxTasks
            /\ tasks' = Add(Task("heartbeat", "shell"))
            /\ last' = Obs("heartbeatTick", "heartbeat", "none", heartbeatTick(connected), {})
    /\ UNCHANGED <<config, logListeners, connected, backgroundOperations, ops, timers, registry,
                   errListener, ready, issuedSince>>

\* ------------------------------------------------------- inactivity timer
\* A one-shot timer has fired: it is no longer live.
fireTimer(t) ==
    IF t.handleLive
    THEN [t EXCEPT !.handleLive = FALSE, !.live = @ - 1]
    ELSE [t EXCEPT !.live = @ - 1]

\* The timer's callback calling disconnect() whatever the connection state.
idleFired_Always(c) == TRUE

\* The callback of the disconnect timer, `connected` having the value c: whether
\* it calls disconnect().
idleFired(c) == c

\* The disconnect timer fires: if (connected) disconnect().
IdleFire ==
    /\ timers.idle.live > 0
    /\ LET tm == [timers EXCEPT !.idle = fireTimer(timers.idle)]
       IN  IF idleFired(connected)
           THEN DisconnectStart("idleFire", tm)
           ELSE /\ timers' = tm
                /\ UNCHANGED <<tasks, issuedSince>>
                /\ last' = Obs("idleFire", "idle", "none", {}, {})
    /\ UNCHANGED <<config, logListeners, connected, backgroundOperations, ops, registry, errListener,
                   ready>>

\* ------------------------------------------------------------ environment
\* The device drops off the adb server's list, or comes back on it.
RegistryChange ==
    /\ registry' = IF Host \in registry THEN registry \ {Host} ELSE registry \cup {Host}
    /\ last' = Obs("registry", "none", "none", {}, {})
    /\ UNCHANGED <<config, logListeners, connected, backgroundOperations, ops, timers, tasks,
                   errListener, ready, issuedSince>>

\* remote.on('error', listener) / remote.off('error', listener)
ToggleErrListener ==
    /\ ready
    /\ errListener' = ~errListener
    /\ last' = Obs("listener", "none", "none", {}, {})
    /\ UNCHANGED <<config, logListeners, connected, backgroundOperations, ops, timers, tasks, registry,
                   ready, issuedSince>>

\* The connection lifecycle: calls, transport settlements, timers, environment.
Next ==
    \/ CallConnect
    \/ CallCommand
    \/ CallDisconnect
    \/ CallStatus
    \/ ConnectSettle
    \/ ShellSettle
    \/ DisconnectSettle
    \/ StatusSettle
    \/ InitSettle
    \/ CheckTick
    \/ CheckSettle
    \/ HeartbeatTick
    \/ IdleFire
    \/ RegistryChange
    \/ ToggleErrListener

Spec == Init /\ [][Next]_vars

\* The caller-facing calls of a session without monitors or inactivity timer.
InitCalls ==
    /\ Init
    /\ ~config.maintainConnection
    /\ ~config.autoDisconnect

NextCalls ==
    \/ CallConnect
    \/ CallCommand
    \/ CallDisconnect
    \/ CallStatus
    \/ ConnectSettle
    \/ ShellSettle
    \/ DisconnectSettle
    \/ StatusSettle
    \/ InitSettle
    \/ RegistryChange
    \/ ToggleErrListener

SpecCalls == InitCalls /\ [][NextCalls]_vars

\* The monitors of a session that maintains its connection, without inactivity timer.
InitMonitor ==
    /\ Init
    /\ config.maintainConnection
    /\ ~config.autoDisconnect

NextMonitor ==
    \/ CallConnect
    \/ CallCommand
    \/ CallDisconnect
    \/ CallStatus
    \/ ConnectSettle
    \/ ShellSettle
    \/ DisconnectSettle
    \/ StatusSettle
    \/ InitSettle
    \/ CheckTick
    \/ CheckSettle
    \/ HeartbeatTick
    \/ RegistryChange
    \/ ToggleErrListener

SpecMonitor == InitMonitor /\ [][NextMonitor]_vars

\* A session with all three timers: heartbeat, reachability and inactivity (quiet,
\* as by default: the quiet flag only gates log events).
InitTimers ==
    /\ Init
    /\ config.maintainConnection
    /\ config.autoDisconnect
    /\ config.quiet

SpecTimers == InitTimers /\ [][Next]_vars

\* Teardown with background operations: file-saving captures, their background
\* operations, the implicit connect and disconnect, for a session without timers.
InitBg ==
    /\ Init
    /\ ~config.maintainConnection
    /\ ~config.autoDisconnect

NextBg ==
    \/ CallScreencap
    \/ CallDisconnect
    \/ ConnectSettle
    \/ CaptureSettle
    \/ BgSettle
    \/ DrainDone
    \/ DisconnectSettle
    \/ InitSettle
    \/ ToggleErrListener

SpecBg == InitBg /\ [][NextBg]_vars

\* The same teardown of a quiet session (the default).
InitDrain ==
    /\ InitBg
    /\ config.quiet

SpecDrain == InitDrain /\ [][NextBg]_vars

\* The same teardown when capture streams may fail or stop mid-transfer.
NextStream ==
    \/ CallScreencap
    \/ CallDisconnect
    \/ ConnectSettle
    \/ CaptureSettle
    \/ BgSettle
    \/ BgStall
    \/ DrainDone
    \/ DisconnectSettle
    \/ InitSettle
    \/ ToggleErrListener

SpecStream == InitBg /\ [][NextStream]_vars

\* Inactivity: key commands and captures of a session with auto-disconnect on and
\* no monitors, torn down by the inactivity timer only.
InitIdle ==
    /\ Init
    /\ config.autoDisconnect
    /\ ~config.maintainConnection

NextIdle ==
    \/ CallCommand
    \/ CallScreencap
    \/ ConnectSettle
    \/ ShellSettle
    \/ CaptureSettle
    \/ BgSettle
    \/ BgStall
    \/ IdleFire
    \/ DrainDone
    \/ DisconnectSettle
    \/ InitSettle

SpecIdle == InitIdle /\ [][NextIdle]_vars

\* ------------------------------------------------------- initialization
\* What createRemote() awaits before it returns the remote: realInitPromise, not
\* the initPromise that races it against the deadline. It has returned once the
\* real initialization has settled, whether or not the deadline has passed.
createRemoteSettled(realSettled, deadlinePassed) == realSettled

\* The initialization deadline (INIT_TIMEOUT_MS) passes: the race behind
\* initPromise is rejected with a timeout unless the real initialization, which
\* has settled exactly when createRemote() has returned, settled first.
InitDeadline ==
    /\ timers.deadline.live > 0
    /\ timers' = [timers EXCEPT !.deadline = fireTimer(timers.deadline)]
    /\ ready' = createRemoteSettled(ready, TRUE)
    /\ last' = Obs("initDeadline", "init", IF ready THEN "none" ELSE "timeout", {}, {})
    /\ UNCHANGED <<config, logListeners, connected, backgroundOperations, ops, tasks, registry,
                   errListener, issuedSince>>

\* Construction: the initialization, its deadline, and the first commands of a
\* session without monitors or inactivity timer.
NextConstruct ==
    \/ InitSettle
    \/ ConnectSettle
    \/ InitDeadline
    \/ CallCommand
    \/ ShellSettle

SpecConstruct == InitCalls /\ [][NextConstruct]_vars

\* ---------------------------------------------------------------- keyboard
\* The key table (data/keyboard-keys.json, as listed in docs/KEYBOARD_KEYS.md): the
\* character each keyboard key types. The grave accent is written U+0060.
keyboardKeys ==
    "a" :> "a" @@ "b" :> "b" @@ "c" :> "c" @@ "d" :> "d" @@ "e" :> "e" @@
    "f" :> "f" @@ "g" :> "g" @@ "h" :> "h" @@ "i" :> "i" @@ "j" :> "j" @@
    "k" :> "k" @@ "l" :> "l" @@ "m" :> "m" @@ "n" :> "n" @@ "o" :> "o" @@
    "p" :> "p" @@ "q" :> "q" @@ "r" :> "r" @@ "s" :> "s" @@ "t" :> "t" @@
    "u" :> "u" @@ "v" :> "v" @@ "w" :> "w" @@ "x" :> "x" @@ "y" :> "y" @@
    "z" :> "z" @@ "0" :> "0" @@ "1" :> "1" @@ "2" :> "2" @@ "3" :> "3" @@
    "4" :> "4" @@ "5" :> "5" @@ "6" :> "6" @@ "7" :> "7" @@ "8" :> "8" @@
    "9" :> "9" @@ "comma" :> "," @@ "period" :> "." @@ "semicolon" :> ";" @@
    "apostrophe" :> "'" @@ "slash" :> "/" @@ "backslash" :> "\\" @@
    "leftBracket" :> "[" @@ "rightBracket" :> "]" @@ "minus" :> "-" @@
    "equals" :> "=" @@ "grave" :> "U+0060" @@ "exclamation" :> "!" @@ "at" :> "@" @@
    "hash" :> "#" @@ "dollar" :> "$" @@ "percent" :> "%" @@ "caret" :> "^" @@
    "ampersand" :> "&" @@ "asterisk" :> "*" @@ "leftParen" :> "(" @@
    "rightParen" :> ")" @@ "underscore" :> "_" @@ "plus" :> "+" @@
    "leftBrace" :> "{" @@ "rightBrace" :> "}" @@ "pipe" :> "|" @@ "colon" :> ":" @@
    "quote" :> "\"" @@ "lessThan" :> "<" @@ "greaterThan" :> ">" @@
    "question" :> "?" @@ "tilde" :> "~" @@ "space" :> " " @@ "tab" :> "\t" @@
    "enter" :> "\n"

KeyNames == DOMAIN keyboardKeys

\* char.toUpperCase() of the characters that match /^[a-z]$/.
toUpperCase ==
    "a" :> "A" @@ "b" :> "B" @@ "c" :> "C" @@ "d" :> "D" @@ "e" :> "E" @@
    "f" :> "F" @@ "g" :> "G" @@ "h" :> "H" @@ "i" :> "I" @@ "j" :> "J" @@
    "k" :> "K" @@ "l" :> "L" @@ "m" :> "M" @@ "n" :> "N" @@ "o" :> "O" @@
    "p" :> "P" @@ "q" :> "Q" @@ "r" :> "R" @@ "s" :> "S" @@ "t" :> "T" @@
    "u" :> "U" @@ "v" :> "V" @@ "w" :> "W" @@ "x" :> "X" @@ "y" :> "Y" @@
    "z" :> "Z"

shiftMap ==
    "1" :> "!" @@ "2" :> "@" @@ "3" :> "#" @@ "4" :> "$" @@ "5" :> "%" @@
    "6" :> "^" @@ "7" :> "&" @@ "8" :> "*" @@ "9" :> "(" @@ "0" :> ")" @@
    "-" :> "_" @@ "=" :> "+" @@ "[" :> "{" @@ "]" :> "}" @@ "\\" :> "|" @@
    ";" :> ":" @@ "'" :> "\"" @@ "," :> "<" @@ "." :> ">" @@ "/" :> "?" @@
    "U+0060" :> "~"

getShiftedCharacter(keyName, char) ==
    IF char \in DOMAIN toUpperCase
    THEN toUpperCase[char]
    ELSE IF char \in DOMAIN shiftMap THEN shiftMap[char] ELSE char

\* Property names every object inherits from Object.prototype: a lookup such as
\* keyboardKeys[keyName] finds them although the table has no such key.
InheritedNames == {"constructor"}

\* The key names a caller uses: a letter, a digit, a symbol with a shifted form, a
\* symbol without one and a control key.
SampleKeys == {"a", "1", "apostrophe", "exclamation", "space"}

\* The trailing callback of a call: absent, one that returns, one that throws.
Callbacks == {"none", "returns", "throws"}

\* text.replace of every space by %s, for a one-character text.
escaped(text) == IF text = " " THEN "%s" ELSE text

\* What the body of a wrapped keyboard function decides before any await: the
\* shell command it goes on to dispatch, or how it fails.
Failed(how) == [fail |-> how, cmd |-> NoCmd]

\* device.shell of `input text` with the escaped text in double quotes, after
\* ensureConnected()
inputText(text) == [fail |-> "none", cmd |-> [verb |-> "text", arg |-> escaped(text)]]

\* device.shell("input keyevent " + code) after ensureConnected(); the code of a
\* key is represented by the key's name.
inputKeycode(code) == [fail |-> "none", cmd |-> [verb |-> "keyevent", arg |-> code]]

\* keyboard.key(keyName, options): hasCode is whether keycodes.json has the key.
\* An inherited property passes both truthiness tests; as a text it is a function,
\* on which inputText throws a TypeError (text.replace) before ensureConnected().
keyboardKey(keyName, force, hasCode) ==
    IF keyName \notin KeyNames \cup InheritedNames
    THEN Failed("unknown")
    ELSE IF ~force
    THEN IF keyName \in KeyNames THEN inputText(keyboardKeys[keyName]) ELSE Failed("typeerror")
    ELSE IF hasCode \/ keyName \in InheritedNames
    THEN inputKeycode(keyName)
    ELSE Failed("nocode")

\* keyboard.key.<keyName>(options) with the text-only failure sent as text instead.
keyFns_TextFallback(keyName, force, hasCode) ==
    IF ~force
    THEN inputText(keyboardKeys[keyName])
    ELSE IF hasCode THEN inputKeycode(keyName) ELSE inputText(keyboardKeys[keyName])

\* keyboard.key.<keyName>(options), defined for the keys of the table.
keyFns(keyName, force, hasCode) ==
    IF ~force
    THEN inputText(keyboardKeys[keyName])
    ELSE IF hasCode THEN inputKeycode(keyName) ELSE Failed("nocode")

\* The shift surface with an entry for every key of the table.
shiftFns_EveryKey ==
    [keyName \in KeyNames |-> getShiftedCharacter(keyName, keyboardKeys[keyName])]

\* keyboard.key.shift: the text each entry sends.
shiftFns ==
    [keyName \in {k \in KeyNames : getShiftedCharacter(k, keyboardKeys[k]) # keyboardKeys[k]}
        |-> getShiftedCharacter(keyName, keyboardKeys[keyName])]

\* keyboard.key.shift.<keyName>(): calling an entry the surface does not have is a
\* TypeError at the call site.
shiftKey(keyName) ==
    IF keyName \in DOMAIN shiftFns THEN inputText(shiftFns[keyName]) ELSE Failed("noentry")

\* A call c through the keyboard surface whose body decides d, up to its first
\* await. A failure by "unknown" / "nocode" is emitError(...) followed by
\* Promise.reject(error); a TypeError, or an emit that throws, leaves the wrapper
\* as a synchronous exception.
KeyboardCall(c, d) ==
    /\ ready
    /\ IF d.fail \in {"typeerror", "noentry"}
       THEN /\ UNCHANGED <<tasks, timers>>
            /\ last' = [Obs(c.surface, "command", "none", {}, {})
                           EXCEPT !.call = c, !.returned = "threw"]
       ELSE IF d.fail \in {"unknown", "nocode"}
       THEN LET e == emitError("other", "keyboard.key")
            IN  /\ UNCHANGED <<tasks, timers>>
                /\ last' = IF e.threw
                           THEN [Obs(c.surface, "command", "none", {}, {})
                                    EXCEPT !.call = c, !.returned = "threw"]
                           ELSE [Obs(c.surface, "command", "rejected", {}, e.events)
                                    EXCEPT !.call = c,
                                           !.returned = IF c.cb = "none" THEN "promise"
                                                        ELSE "undefined",
                                           !.calls = callbackCalls("rejected", c.cb)]
       ELSE /\ NumTasks < MaxTasks
            /\ LET e == ensureConnected(connected)
                   o == [Obs(c.surface, "command", "none", {}, e.events)
                            EXCEPT !.call = c,
                                   !.returned = IF c.cb = "none" THEN "promise"
                                                ELSE "undefined"]
               IN  IF e.issue
                   THEN /\ tasks' = Add([Task("command", "connecting")
                                           EXCEPT !.cmd = d.cmd, !.cb = c.cb])
                        /\ timers' = timers
                        /\ last' = [o EXCEPT !.issued = {"connect"}]
                   ELSE /\ tasks' = Add([Task("command", "shell") EXCEPT !.cb = c.cb])
                        /\ timers' = resetDisconnectTimer(timers)
                        /\ last' = [o EXCEPT !.issued = {"shell"}, !.sent = d.cmd,
                                             !.restarted = restartedByReset(timers)]
    /\ UNCHANGED <<config, logListeners, connected, backgroundOperations, ops, registry,
                   errListener, ready, issuedSince>>

\* keyboard.key(keyName, { forceKeycode }) with a trailing callback of the set cbs
\* ("none": without one). keycodes[keyName] is read only when the code is forced.
KeyCall(cbs) ==
    \E keyName \in SampleKeys \cup {"nonexistentkey"} \cup InheritedNames,
       force \in BOOLEAN, cb \in cbs :
       \E hasCode \in IF force THEN BOOLEAN ELSE {FALSE} :
          KeyboardCall([surface |-> "keyboard.key", key |-> keyName, force |-> force,
                        hasCode |-> hasCode, cb |-> cb],
                       keyboardKey(keyName, force, hasCode))

\* await remote.keyboard.key(keyName, options)
KeyboardKey == KeyCall({"none"})

\* remote.keyboard.key(keyName, options, cb)
KeyboardKeyCallback == KeyCall({"returns", "throws"})

\* await remote.keyboard.key.<keyName>({ forceKeycode })
KeyboardNamedKey ==
    \E keyName \in SampleKeys, force \in BOOLEAN :
       \E hasCode \in IF force THEN BOOLEAN ELSE {FALSE} :
          KeyboardCall([surface |-> "keyboard.key.<name>", key |-> keyName, force |-> force,
                        hasCode |-> hasCode, cb |-> "none"],
                       keyFns(keyName, force, hasCode))

\* await remote.keyboard.key.shift.<keyName>()
KeyboardShiftKey ==
    \E keyName \in KeyNames :
       KeyboardCall([surface |-> "keyboard.key.shift.<name>", key |-> keyName,
                     force |-> FALSE, hasCode |-> FALSE, cb |-> "none"],
                    shiftKey(keyName))

\* Key presses by name through keyboard.key(name) of a session without monitors.
InitKeyboard ==
    /\ Init
    /\ ~config.maintainConnection
    /\ config.quiet

NextKeyboard ==
    \/ KeyboardKey
    \/ ConnectSettle
    \/ ShellSettle
    \/ InitSettle
    \/ IdleFire
    \/ DisconnectSettle

SpecKeyboard == InitKeyboard /\ [][NextKeyboard]_vars

\* Key presses through the per-key functions keyboard.key.<name>.
NextNamedKey ==
    \/ KeyboardNamedKey
    \/ ConnectSettle
    \/ ShellSettle
    \/ InitSettle
    \/ IdleFire
    \/ DisconnectSettle

SpecNamedKey == InitKeyboard /\ [][NextNamedKey]_vars

\* The shift surface over the whole key table, for a session that connects
\* explicitly only (autoConnect off) and has no inactivity timer.
InitShift ==
    /\ InitKeyboard
    /\ ~config.autoConnect
    /\ ~config.autoDisconnect

NextShift ==
    \/ CallConnect
    \/ KeyboardShiftKey
    \/ ConnectSettle
    \/ ShellSettle

SpecShift == InitShift /\ [][NextShift]_vars

\* The two calling conventions of a wrapped operation, keyboard.key, for a session
\* without timers.
InitWrap ==
    /\ InitKeyboard
    /\ ~config.autoDisconnect

NextWrap ==
    \/ KeyboardKey
    \/ KeyboardKeyCallback
    \/ ConnectSettle
    \/ ShellSettle
    \/ InitSettle

SpecWrap == InitWrap /\ [][NextWrap]_vars

\* ----------------------------------------------------------- event channel
\* The session instances of one process: the one whose operations are modelled
\* and one more, returned by another createRemote() call.
Instances == {"this", "other"}

\* The EventEmitter that on / off / once / emit of instance i, and the emitLog /
\* emitError calls of its operations, use: `emitter`, created once when the module
\* is loaded, whatever the instance.
emitterOf(i) == "module"

\* The instances through which the listeners were registered that an event
\* emitted by an operation of instance i is delivered to.
receivers(i) == {j \in logListeners : emitterOf(j) = emitterOf(i)}

\* instance.on('log', listener), through either instance of the process
OnLog ==
    \E i \in Instances :
       /\ i = "this" => ready
       /\ i \notin logListeners
       /\ logListeners' = logListeners \cup {i}
       /\ last' = Obs("on", "none", "none", {}, {})
       /\ UNCHANGED <<config, connected, backgroundOperations, ops, timers, tasks, registry,
                      errListener, ready, issuedSince>>

\* instance.off('log', listener)
OffLog ==
    \E i \in Instances :
       /\ i = "this" => ready
       /\ i \in logListeners
       /\ logListeners' = logListeners \ {i}
       /\ last' = Obs("off", "none", "none", {}, {})
       /\ UNCHANGED <<config, connected, backgroundOperations, ops, timers, tasks, registry,
                      errListener, ready, issuedSince>>

\* Two sessions in one process: the connects and disconnects of one of them, and
\* the 'log' subscriptions made through either.
NextChannel ==
    \/ OnLog
    \/ OffLog
    \/ CallConnect
    \/ CallDisconnect
    \/ ConnectSettle
    \/ DisconnectSettle
    \/ InitSettle

SpecChannel == InitCalls /\ [][NextChannel]_vars

\* The auto-disconnect policy, on or off: key commands, explicit disconnects and
\* the inactivity timer of a quiet session without monitors.
NextPolicy ==
    \/ CallCommand
    \/ CallDisconnect
    \/ ConnectSettle
    \/ ShellSettle
    \/ DisconnectSettle
    \/ InitSettle
    \/ IdleFire

SpecPolicy == InitKeyboard /\ [][NextPolicy]_vars

\* The reachability monitor of a session that is never disconnected or
\* status-checked by its caller: only a tick can clear the belief.
NextReconnect ==
    \/ CallConnect
    \/ CallCommand
    \/ ConnectSettle
    \/ ShellSettle
    \/ InitSettle
    \/ CheckTick
    \/ CheckSettle
    \/ RegistryChange
    \/ ToggleErrListener

SpecReconnect == InitMonitor /\ [][NextReconnect]_vars

\* ================================================================== claims
IsErrorEvent(e) == e.kind = "error" \/ e.level = "error"

\* C1 (as stated): in a sequence of connect() calls with no disconnect() between
\* them, at most one transport connect is issued: a connect() call that overlaps no
\* other transport connect issues none when an earlier call already issued one.
C1_Original ==
    (last.act = "connect" /\ "connect" \in last.issued /\ InFlight("connecting") = 1)
        => issuedSince # "many"

\* C1 (amended): a connect() call that finds believedConnected true returns success
\* at once without a transport call; a call that finds it false issues exactly one
\* transport connect (again, when the earlier attempt failed or the belief was
\* cleared).
C1_ConnectGuard ==
    last.act = "connect" =>
        IF last.connectedBefore
        THEN last.issued = {} /\ last.ret = "ok"
        ELSE last.issued = {"connect"} /\ last.ret = "none"

\* A later connect() call, after an earlier one issued the transport connect, finds
\* the session connected.
C1_Witness ==
    last.act = "connect" /\ last.connectedBefore /\ issuedSince # "none" /\ last.ret = "ok"

\* C2: at no moment are two transport connect calls in flight for the session.
C2_OneConnectInFlight == InFlight("connecting") <= 1

\* C3: disconnect() issues the transport disconnect only when every background
\* operation that was in the set when disconnect() was called has settled,
\* fulfilled or rejected.
C3_DrainBeforeDisconnect ==
    "disconnect" \in last.issued => \A o \in last.snap : ops[o] \in {"fulfilled", "rejected"}

\* The drain of two tracked operations, one of which was rejected, is over.
C3_Witness ==
    /\ last.act = "drainDone"
    /\ "disconnect" \in last.issued
    /\ Cardinality(last.snap) = 2
    /\ \E o \in last.snap : ops[o] = "rejected"

\* C4: when disconnect() returns, no background operation of the session is still
\* unsettled.
C4_NothingRunningAtReturn ==
    last.act = "disconnectSettle" => {o \in OpIds : ops[o] = "running"} = {}

\* C5: a reachability tick that finds the address absent sets believedConnected to
\* false and issues exactly one transport connect; the tick issues nothing more
\* when that connect settles.
C5_TickReconnectsOnce ==
    /\ last.act = "checkAbsent" => (~connected /\ last.issued = {"connect"})
    /\ (last.act = "connectSettle" /\ last.kind = "check") => last.issued = {}

\* The tick found the address absent while the session was believed connected.
C5_Witness ==
    /\ last.act = "checkAbsent"
    /\ last.connectedBefore
    /\ ~connected
    /\ Host \notin last.devices
    /\ InFlight("connecting") = 1

\* C6: a reachability tick whose registry query fails emits a warning log and
\* changes nothing else: believedConnected keeps its value, no transport call is
\* issued and no error event is emitted.
C6_QueryFailureOnlyWarns ==
    last.act = "checkFailed" =>
        /\ connected = last.connectedBefore
        /\ last.issued = {}
        /\ LogEv("warn", "connectionCheck") \in last.events
        /\ \A e \in last.events : e.kind = "log" /\ e.level = "warn"

\* The query of a tick failed while the session was believed connected.
C6_Witness ==
    last.act = "checkFailed" /\ last.reply = "error" /\ last.connectedBefore /\ connected

\* C7 (as stated): the tick reconnects through ensureConnected(), so that no
\* transport connect is issued when the auto-connect policy disallows it.
C7_Original ==
    (last.act = "checkAbsent" /\ ~config.autoConnect) => "connect" \notin last.issued

\* C7 (amended): the tick reconnects through connect(): a transport connect is
\* issued whether or not the auto-connect policy allows implicit connection.
C7_ReconnectWhateverPolicy ==
    last.act = "checkAbsent" =>
        ("connect" \in last.issued /\ InFlight("connecting") >= 1)

\* The tick reconnected although autoConnect is off.
C7_Witness ==
    last.act = "checkAbsent" /\ ~config.autoConnect /\ "connect" \in last.issued

\* C8: after getConnectionStatus(true) with a successful registry query,
\* believedConnected is whether the address is in the snapshot returned, and the
\* status returned is the matching one.
C8_LiveCheckOverwrites ==
    (last.act = "statusSettle" /\ last.reply = "ok") =>
        /\ connected = (Host \in last.devices)
        /\ last.ret = IF Host \in last.devices THEN "connected" ELSE "disconnected"

\* A live check switched the belief from true to false.
C8_Witness ==
    /\ last.act = "statusSettle"
    /\ last.reply = "ok"
    /\ last.connectedBefore
    /\ ~connected
    /\ last.ret = "disconnected"

\* C9: when the registry query of getConnectionStatus(true) fails, the call
\* returns 'unknown' and believedConnected is false.
C9_UnknownOnQueryFailure ==
    (last.act = "statusSettle" /\ last.reply = "error") =>
        (last.ret = "unknown" /\ ~connected)

\* The query of a live check failed while the session was believed connected.
C9_Witness ==
    last.act = "statusSettle" /\ last.reply = "error" /\ last.connectedBefore

C11_AlreadyConnectedIsSuccess ==
    (last.act = "connectSettle" /\ last.kind = "connect" /\ last.reply = "already") =>
        /\ last.ret = "ok"
        /\ \A cb \in BOOLEAN : wrapAsync(last.ret, cb) \in {"resolves", "cb(null, result)"}
        /\ \A e \in last.events : ~IsErrorEvent(e)
        /\ connected

\* connect() was called while not believed connected and the transport reported
\* 'already connected'.
C11_Witness ==
    /\ last.act = "connectSettle"
    /\ last.kind = "connect"
    /\ last.reply = "already"
    /\ ~last.connectedBefore
    /\ connected

\* The transport errors that are neither 'already connected' nor 'already
\* disconnected'.
OtherErrors == {"unauthorized", "refused", "other"}

\* C12: when the transport's connect or disconnect fails with an error that is
\* neither 'already connected' nor 'already disconnected', connect() / disconnect()
\* reports a negative result through the calling convention: the promise rejects,
\* or the callback receives the error as its error argument.
C12_OtherErrorsAreNegative ==
    (/\ last.act \in {"connectSettle", "disconnectSettle"}
     /\ last.kind \in {"connect", "disconnect"}
     /\ last.reply \in OtherErrors) =>
        \A cb \in BOOLEAN : wrapAsync(last.ret, cb) \in {"rejects", "cb(err)"}

\* The options of the scenario of C13: autoConnect true, an idle timeout, and
\* nothing else.
C13_Options ==
    [autoConnect |-> "true", autoDisconnect |-> "unset",
     maintainConnection |-> "unset", quiet |-> "unset"]

\* C13: with the options {address, autoConnect: true, idle timeout 1 s} and no
\* other, one command followed by 1.5 s without commands ends with disconnect
\* invoked once and believedConnected false. Only the inactivity timer invokes
\* disconnect in that scenario, so once the command has been dispatched the
\* inactivity timer is pending.
C13_IdleScenarioTearsDown ==
    (/\ config = RemoteConfig(C13_Options)
     /\ last.kind = "command"
     /\ "shell" \in last.issued) =>
        timers.idle.live >= 1

\* C14: with auto-disconnect enabled, a session that is believed connected and
\* idle is eventually disconnected, however the connection was established. With
\* nothing in flight only the inactivity timer can invoke disconnect(), so it is
\* pending whenever the session is believed connected and nothing is in flight.
C14_IdleTeardownPending ==
    (config.autoDisconnect /\ connected /\ NumTasks = 0) => timers.idle.live >= 1

\* C16: while believedConnected is false, a heartbeat tick issues no command to the
\* transport.
C16_NoHeartbeatWhileDisconnected ==
    (last.act = "heartbeatTick" /\ ~last.connectedBefore) =>
        last.issued = {}

\* The heartbeat interval ticked while the session was not believed connected.
C16_Witness ==
    /\ last.act = "heartbeatTick"
    /\ ~last.connectedBefore
    /\ timers.heartbeat.live >= 1

\* C17: a heartbeat command that fails leaves believedConnected unchanged and
\* publishes no event; nothing is returned to anyone.
C17_HeartbeatFailureDiscarded ==
    (last.act = "shellSettle" /\ last.kind = "heartbeat" /\ last.reply # "ok") =>
        /\ connected = last.connectedBefore
        /\ last.events = {}
        /\ last.ret = "none"

\* A heartbeat command failed while the session was believed connected.
C17_Witness ==
    /\ last.act = "shellSettle"
    /\ last.kind = "heartbeat"
    /\ last.reply = "other"
    /\ last.connectedBefore
    /\ connected

\* C18: in every reachable state at most one timer of each role (heartbeat,
\* reachability, inactivity) is live, and the live one is the one the session
\* holds the handle of.
C18_OneLiveTimerPerRole ==
    \A role \in {"heartbeat", "check", "idle"} :
        /\ timers[role].live <= 1
        /\ timers[role].live = 1 => (timers[role].handle /\ timers[role].handleLive)

\* A reconnect has replaced the live heartbeat and reachability timers, and a
\* command the live inactivity timer, each by one new timer.
C18_Witness ==
    /\ last.restarted = {"heartbeat", "check", "idle"}
    /\ \A role \in last.restarted : timers[role].live = 1

\* The transport calls that dispatch a caller's command.
Dispatches == {"shell", "screencap"}

\* C15: every command dispatched to the transport cancels and restarts the
\* inactivity timer, a key press and a screencap alike: with auto-disconnect on,
\* the inactivity timer is pending right after every dispatch.
C15_EveryDispatchResetsTimer ==
    (/\ config.autoDisconnect
     /\ last.kind \in {"command", "screencap"}
     /\ last.issued \cap Dispatches # {}) =>
        (timers.idle.handleLive /\ timers.idle.live >= 1)

\* C19: at every moment the background operation set holds exactly the tracked
\* operations that have been launched and have not settled, also when an
\* operation fails before its first suspension point.
C19_SetIsLaunchedUnsettled ==
    backgroundOperations = {o \in OpIds : ops[o] \in {"running", "stalled"}}

\* C20: every tracked background operation eventually settles, also when the
\* capture stream fails or stops mid-transfer: no operation is left unsettled
\* with no event pending that settles it, and no drain waits for such an
\* operation.
C20_EveryOperationSettles ==
    /\ \A o \in OpIds : ops[o] # "stalled"
    /\ \A r \in TaskSet : r.pc = "draining" => \A o \in r.snap : ops[o] # "stalled"

\* C21: when a tracked background operation fails, its error is published as an
\* error event with the originating command ("screencap") as source, and it is not
\* thrown: the operation's own promise is fulfilled, so that nothing is rejected
\* into disconnect()'s drain or into the process.
C21_BackgroundFailurePublished ==
    (last.act = "bgSettle" /\ last.ret = "failed") =>
        /\ ErrEv("screencap") \in last.events
        /\ \A p \in last.snap : ops[p] = "fulfilled"

\* C22: an error of the transient decode-failure class is downgraded to a debug
\* log only while believedConnected is false; while believedConnected is true it
\* is published as an error event (a subscriber being registered for 'error').
C22_DecodeDowngradedOnlyWhileDisconnected ==
    (last.act = "bgSettle" /\ last.reply = "decode" /\ errListener) =>
        IF last.connectedBefore
        THEN ErrEv("screencap") \in last.events
        ELSE /\ LogEv("debug", "screencap") \in last.events
             /\ ErrEv("screencap") \notin last.events

\* C23: with quiet mode on, no operation publishes a log event of level info or
\* debug.
C23_QuietSuppressesInfoAndDebug ==
    config.quiet =>
        \A e \in last.events : ~(e.kind = "log" /\ e.level \in {"info", "debug"})

\* C24: a call of a wrapped operation with a trailing callback returns no
\* awaitable, and when the promise of the call settles the callback receives
\* exactly the outcome the promise form would have had, (null, result) on
\* fulfilment and (error) on rejection; a call without a callback returns the
\* awaitable.
C24_CallbackMirrorsPromise ==
    /\ last.call.surface # "none" =>
          last.returned = IF last.call.cb = "none" THEN "promise" ELSE "undefined"
    /\ (last.kind = "command" /\ last.ret # "none") =>
          last.calls = IF last.call.cb = "none"
                       THEN <<>>
                       ELSE <<wrapAsync(last.ret, TRUE)>>

\* C25: a call keyboard.key(name) with a name that is not a key of the table fails
\* (a rejected promise or an exception) before ensureConnected() or any transport
\* call: the step issues no transport call, dispatches no command, starts no
\* activity, and leaves believedConnected and all timers unchanged.
C25_UnknownKeyFailsBeforeTransport ==
    [][(last'.act = "keyboard.key" /\ last'.call.key \notin KeyNames) =>
          /\ last'.ret = "rejected" \/ last'.returned = "threw"
          /\ last'.issued = {}
          /\ last'.sent = NoCmd
          /\ tasks' = tasks
          /\ connected' = connected
          /\ timers' = timers]_vars

\* C26: a per-key keyboard function called with forceKeycode dispatches the key
\* code when the key has one: the shell command issued at once, or held until the
\* implicit connect settles, is the key event of that key. When the key has no
\* code the call fails (a rejected promise, or the exception of the emit) without
\* sending the key as text and without any transport call.
C26_ForcedCodeOrFailure ==
    (last.act = "keyboard.key.<name>" /\ last.call.force) =>
        IF last.call.hasCode
        THEN LET code == [verb |-> "keyevent", arg |-> last.call.key]
             IN  \/ last.issued = {"shell"} /\ last.sent = code
                 \/ /\ last.issued = {"connect"}
                    /\ last.sent = NoCmd
                    /\ \E r \in TaskSet : r.pc = "connecting" /\ r.cmd = code
        ELSE /\ last.ret = "rejected" \/ last.returned = "threw"
             /\ last.issued = {}
             /\ last.sent = NoCmd

\* A text-only key was forced to its code on a connected session and the call was
\* rejected with the error published.
C26_Witness ==
    /\ last.act = "keyboard.key.<name>"
    /\ last.call.force
    /\ ~last.call.hasCode
    /\ last.connectedBefore
    /\ last.ret = "rejected"
    /\ ErrEv("keyboard.key") \in last.events

\* C27: the shift surface has an entry for a key if and only if the shifted
\* character of the key differs from its base character: calling the entry of such
\* a key dispatches exactly the shifted character as text, and for any other key
\* there is no entry to call (the call is a TypeError and nothing is dispatched).
C27_ShiftEntryIffShifted ==
    last.act = "keyboard.key.shift.<name>" =>
        LET base == keyboardKeys[last.call.key]
            shifted == getShiftedCharacter(last.call.key, base)
        IN  IF shifted # base
            THEN /\ last.returned = "promise"
                 /\ last.issued = {"shell"}
                 /\ last.sent = [verb |-> "text", arg |-> shifted]
            ELSE /\ last.returned = "threw"
                 /\ last.issued = {}
                 /\ last.sent = NoCmd

\* The shift entry of the minus key was called on a connected session and sent
\* the underscore as text.
C27_Witness ==
    /\ last.act = "keyboard.key.shift.<name>"
    /\ last.call.key = "minus"
    /\ last.connectedBefore
    /\ last.issued = {"shell"}
    /\ last.sent = [verb |-> "text", arg |-> "_"]

\* C28: construction is bounded by the initialization deadline: once the deadline
\* has passed, createRemote() has settled, also when the real initialization is
\* still waiting for the transport.
C28_ConstructionBoundedByDeadline ==
    timers.deadline.live = 0 => ready

\* C29: with auto-connect enabled, when the initial connection fails createRemote()
\* still returns the remote: it neither throws nor hangs, and the failure is
\* reported as an error event and as a rejected initialization promise.
C29_FailedInitStillReturns ==
    (/\ last.act = "connectSettle"
     /\ last.kind = "init"
     /\ last.reply \in OtherErrors) =>
        /\ ready
        /\ last.ret = "rejected"
        /\ \E e \in last.events : e.kind = "error"

\* C30: an error event published while no subscriber is registered for 'error' has
\* no effect on the operation that produced it: a connect() or disconnect() whose
\* transport call fails returns the error, a command whose implicit connect fails
\* goes on to its shell command, and a failed initialization rejects the
\* initialization promise and returns the remote, with a subscriber or without.
C30_SettlesAlikeWithoutSubscriber ==
    /\ (/\ last.act \in {"connectSettle", "disconnectSettle"}
        /\ last.kind \in {"connect", "disconnect"}
        /\ last.reply \in OtherErrors) => last.ret = "errvalue"
    /\ (/\ last.act = "connectSettle"
        /\ last.kind = "command"
        /\ last.reply \in OtherErrors) => (last.ret = "none" /\ last.issued = {"shell"})
    /\ (/\ last.act = "connectSettle"
        /\ last.kind = "init"
        /\ last.reply \in OtherErrors) => (last.ret = "rejected" /\ ready)

\* C31: each session instance has its own event channel: a log event produced by
\* an operation of one instance is delivered to no listener that was registered
\* through the on() of another instance.
C31_OwnEventChannel ==
    (\E e \in last.events : e.kind = "log") => receivers("this") \subseteq {"this"}

\* C32: in every reachable state the heartbeat timer is active if and only if the
\* reachability timer is active: the two are started together and stopped
\* together.
C32_TimersCoupled ==
    (timers.heartbeat.live > 0) <=> (timers.check.live > 0)

\* A reconnect has cancelled and restarted both timers in one step.
C32_Witness ==
    /\ last.act = "connectSettle"
    /\ last.restarted = {"heartbeat", "check"}
    /\ timers.heartbeat.live = 1
    /\ timers.check.live = 1

\* C33: when the inactivity timer fires while believedConnected is false,
\* disconnect() is not invoked and no transport call is made: the step starts no
\* disconnect, issues nothing and leaves the monitors' timers alone.
C33_IdleFireOnlyWhenConnected ==
    [][(last'.act = "idleFire" /\ ~connected) =>
          /\ last'.kind = "idle"
          /\ last'.issued = {}
          /\ tasks' = tasks
          /\ connected' = connected
          /\ timers'.heartbeat = timers.heartbeat
          /\ timers'.check = timers.check]_vars

\* The inactivity timer, armed by a command of a session that never connected,
\* has fired.
C33_Witness ==
    /\ last.act = "idleFire"
    /\ last.kind = "idle"
    /\ ~last.connectedBefore
    /\ ~connected
    /\ timers.idle.live = 0

\* C34: with auto-disconnect disabled by policy, no inactivity timer is ever armed
\* and the session issues no transport disconnect on its own: every transport
\* disconnect is issued by an explicit disconnect() call of the caller.
C34_NoTeardownWithoutPolicy ==
    ~config.autoDisconnect =>
        /\ timers.idle = NoTimer
        /\ "disconnect" \in last.issued => last.act = "disconnect"
        /\ last.act # "idleFire"

\* A command has been dispatched on a connected session with the policy off, and
\* no inactivity timer has been armed.
C34_Witness ==
    /\ ~config.autoDisconnect
    /\ last.kind = "command"
    /\ "shell" \in last.issued
    /\ connected
    /\ timers.idle = NoTimer

\* C35: with connection maintenance enabled, whenever believedConnected is true
\* (and no disconnect() is under way) the heartbeat and reachability timers are
\* active, also after a live status check that finds the address and after a
\* disconnect() whose transport call fails.
C35_ConnectedImpliesMonitored ==
    (/\ config.maintainConnection
     /\ connected
     /\ \A r \in TaskSet : r.kind # "disconnect") =>
        (timers.heartbeat.live > 0 /\ timers.check.live > 0)

C37_DispatchOnlyWhenConnected ==
    (/\ config.autoConnect
     /\ last.kind = "command"
     /\ "shell" \in last.issued) => connected

\* C38: after disconnect() has completed successfully, believedConnected stays
\* false and no heartbeat or reachability timer is active until a later connect(),
\* command or status check is started: when the next step is the completion of an
\* explicit transport connect that was in flight before disconnect() was called,
\* it leaves believedConnected false and starts no timer.
C38_DisconnectIsFinal ==
    [][(/\ last.act = "disconnectSettle"
        /\ last.ret = "ok"
        /\ issuedSince = "none"
        /\ last'.act = "connectSettle"
        /\ last'.kind = "connect") =>
          /\ ~connected'
          /\ timers'.heartbeat.live = 0
          /\ timers'.check.live = 0]_vars

\* C39: the inactivity timer never invokes disconnect() while a caller command's
\* transport call is still in flight: the idle period counts from the completion
\* of the last command, not from its dispatch.
C39_NoTeardownDuringCommand ==
    (last.act = "idleFire" /\ last.kind = "disconnect") =>
        \A r \in TaskSet : ~(r.kind = "command" /\ r.pc = "shell")

\* C40: when a wrapped operation is called with a trailing callback, the callback
\* is invoked exactly once when the call settles, also when the callback itself
\* throws while handling a successful result.
C40_CallbackInvokedOnce ==
    (last.kind = "command" /\ last.call.cb # "none" /\ last.ret # "none") =>
        Len(last.calls) = 1

====
